---------------------------- MODULE Spec2Model ----------------------------
(***************************************************************************)
(* Model of the quoalise XMPP client: the session-start wait               *)
(* (xmpp_utils._wait_for_session_start), ClientAsync.connect, the          *)
(* reconnect loop ClientAsync.__reconnect, ClientAsync.disconnect and the  *)
(* ad-hoc command operations get_history / subscribe / unsubscribe with    *)
(* the IqErrorConverter.                                                   *)
(*                                                                         *)
(* The slixmpp event loop is the environment: it emits the events          *)
(* session_start, session_end, connection_failed, failed_auth and          *)
(* disconnected, runs the registered handlers, and advances time.          *)
(***************************************************************************)
EXTENDS Naturals, FiniteSets, Sequences, TLC

\* Number of __reconnect coroutines the model lets run at the same time.
MaxLoops == 2

\* asyncio.wait_for(session_state, 10)
SessionTimeout == 10

\* asyncio.sleep(5.0)
ReconnectSleep == 5

\* Task 0 is ClientAsync.connect; tasks 1..MaxLoops are __reconnect coroutines.
ConnectTask == 0

Loops == 1..MaxLoops

Tasks == {ConnectTask} \cup Loops

\* The flows of the caller that call wait_for_data or iterate listen.
Consumers == {"consumer-a", "consumer-b"}

\* The handlers dict of _wait_for_session_start.
SignalNames == {"session_start", "session_end", "connection_failed", "failed_auth"}

VARIABLES
    conn,              \* xmpp_client transport: "down", "connecting", "established", "closing"
    handlers,          \* event handlers registered by waits: <<event, task>>
    client,            \* TRUE once ClientAsync.__init__ registered __reconnect
    presence,          \* TRUE when send_presence was called on the current connection
    disconnectCalled,  \* TRUE once the caller called ClientAsync.disconnect
    pc,                \* position of every task
    fut,               \* session_state future of the task's current wait
    error,             \* the nonlocal error of the task's current wait
    timer,             \* seconds since the task's current sleep / wait_for began
    first,             \* history: what ended the task's last wait first (a signal or "timeout")
    result,            \* outcome of the task's last wait
    logged,            \* the error logging.error wrote in the task's last round
    cpc,               \* the caller's command: "idle", "awaiting", "finished"
    call,              \* the command the caller called and its time arguments
    request,           \* the last Iq handed to iq.send()
    response,          \* what ended the await of iq.send()
    surfaced,          \* what the command returned or raised to its caller
    handlerOf,         \* server: what became of add_handler(V()) for each variant V
    session,           \* server: the command session dict handed to the handler
    inbound,           \* server: the last inbound command Iq: "none", "start", "next"
    raised,            \* server: what fill_form or execute raised in the last handler call
    left,              \* server: what left the handler in its last call
    executed,          \* server: the execute calls made for the session, in order
    rendered,          \* server: the forms made with ftype "form" for the session
    incoming_data,     \* the items of the asyncio.Queue of the client, oldest first
    getters,           \* the consumers suspended in Queue.get, in the order they wait
    qpc,               \* each consumer: "idle", "waiting" in Queue.get, "woken"
    yielded,           \* each consumer: operations listen yielded to it, not yet awaited
    enqueued,          \* history: every Data put in the queue, in order
    delivered          \* history: every Data a wait_for_data returned, and to whom, in order

sessionVars == <<conn, handlers, client, presence, disconnectCalled,
                 pc, fut, error, timer, first, result, logged>>

cmdVars == <<cpc, call, request, response, surfaced>>

serverVars == <<handlerOf, session, inbound, raised, left, executed, rendered>>

queueVars == <<incoming_data, getters, qpc, yielded, enqueued, delivered>>

vars == <<sessionVars, cmdVars, serverVars, queueVars>>

NoResult == [kind |-> "none", msg |-> ""]

NoCall == [op |-> "none", start_time |-> "omitted", end_time |-> "omitted"]

NoRequest == [node |-> "none", fields |-> {}]

NoResponse == [type |-> "none"]

NoOutcome == [kind |-> "none"]

\* The classes of server.py a server operator derives its handlers from.
Variants == {"GetHistoryHandler", "Subscribe", "Unsubscribe"}

\* The payload of a command Iq without subelements, as the library hands it on.
EmptyPayload == [kind |-> "empty"]

NoSession == [node |-> "none", from |-> "", payload |-> EmptyPayload, next |-> "none"]

NoInbound == [phase |-> "none", payload |-> EmptyPayload]

NoError == [type |-> "none", text |-> ""]

NoLeft == [kind |-> "none"]

OkResult == [kind |-> "ok", msg |-> ""]

TimeoutResult == [kind |-> "TimeoutError", msg |-> ""]

\* error = ConnectionFailed(...) in the three failure handlers.
ErrorMessage(ev) ==
    CASE ev = "session_end" -> "XMPP server ended the session"
      [] ev = "connection_failed" -> "XMPP server is not reachable"
      [] ev = "failed_auth" -> "Invalid username or password"

ConnectionFailedResult(ev) == [kind |-> "ConnectionFailed", msg |-> ErrorMessage(ev)]

\* A handler that resolves the future whether or not it is already done.
HandlerNoDoneCheck(ev, f, e) ==
    IF ev = "session_start"
    THEN [fut |-> "true", error |-> e]
    ELSE [fut |-> "false", error |-> ev]

\* session_start_waiter, session_end_handler, connection_failed_handler,
\* failed_auth_handler: the future f and the error e after the handler ran.
Handler(ev, f, e) ==
    IF f # "pending"
    THEN [fut |-> f, error |-> e]
    ELSE IF ev = "session_start"
         THEN [fut |-> "true", error |-> e]
         ELSE [fut |-> "false", error |-> ev]

\* add_event_handler(event_name, pointer, disposable=True) for the four handlers.
Register(h, t) == h \cup {<<ev, t>> : ev \in SignalNames}

\* Relying on disposable=True alone: nothing is deleted on exit.
DeregisterNothing(h, t) == h

\* The finally block: del_event_handler for the four handlers.
Deregister(h, t) == {x \in h : x[2] # t}

\* What the wait raises or returns once the future is done.
WaitOutcome(f, e) ==
    IF f = "cancelled" THEN TimeoutResult
    ELSE IF e # "none" THEN ConnectionFailedResult(e)
    ELSE OkResult

\* except ConnectionFailed: a narrower except clause.
CaughtConnectionFailedOnly(kind) == kind = "ConnectionFailed"

\* except Exception as e
Caught(kind) == kind \in {"ConnectionFailed", "TimeoutError"}

\* A loop that logs success too and goes round again.
LoopNeverReturns(kind) ==
    IF Caught(kind) \/ kind = "ok" THEN "sleeping" ELSE "raised"

\* The body of "while True" after the wait: return, or log and go round again.
LoopAfterWait(kind) ==
    IF kind = "ok" THEN "done"
    ELSE IF Caught(kind) THEN "sleeping"
    ELSE "raised"

\* await asyncio.sleep(5.0)
SleepDuration == ReconnectSleep

\* A coroutine slot is free before its loop started and after it returned.
FreeIn(p) == {l \in Loops : p[l] \in {"none", "done"}}

FreeLoops == FreeIn(pc)

LeastFreeIn(p) == CHOOSE m \in FreeIn(p) : \A n \in FreeIn(p) : m <= n

\* The __reconnect coroutines that were started and have not returned.
InFlight == {l \in Loops : pc[l] \in {"sleeping", "waiting", "raised"}}

Init ==
    /\ conn = "down"
    /\ handlers = {}
    /\ client = FALSE
    /\ presence = FALSE
    /\ disconnectCalled = FALSE
    /\ pc = [t \in Tasks |-> IF t = ConnectTask THEN "start" ELSE "none"]
    /\ fut = [t \in Tasks |-> "none"]
    /\ error = [t \in Tasks |-> "none"]
    /\ timer = [t \in Tasks |-> 0]
    /\ first = [t \in Tasks |-> "none"]
    /\ result = [t \in Tasks |-> NoResult]
    /\ logged = [t \in Tasks |-> NoResult]
    /\ cpc = "idle"
    /\ call = NoCall
    /\ request = NoRequest
    /\ response = NoResponse
    /\ surfaced = NoOutcome
    /\ handlerOf = [v \in Variants |-> "none"]
    /\ session = NoSession
    /\ inbound = NoInbound
    /\ raised = NoError
    /\ left = NoLeft
    /\ executed = <<>>
    /\ rendered = 0
    /\ incoming_data = <<>>
    /\ getters = <<>>
    /\ qpc = [c \in Consumers |-> "idle"]
    /\ yielded = [c \in Consumers |-> 0]
    /\ enqueued = <<>>
    /\ delivered = <<>>

\* The first lines of _wait_for_session_start up to the await, for task t.
BeginWait(t) ==
    /\ fut' = [fut EXCEPT ![t] = "pending"]
    /\ error' = [error EXCEPT ![t] = "none"]
    /\ handlers' = Register(handlers, t)
    /\ timer' = [timer EXCEPT ![t] = 0]
    /\ first' = [first EXCEPT ![t] = "none"]
    /\ result' = [result EXCEPT ![t] = NoResult]
    /\ logged' = [logged EXCEPT ![t] = NoResult]
    /\ pc' = [pc EXCEPT ![t] = "waiting"]

\* ClientAsync.connect up to the await of _wait_for_session_start.
ConnectCall ==
    /\ pc[ConnectTask] = "start"
    /\ conn' = "connecting"
    /\ BeginWait(ConnectTask)
    /\ UNCHANGED <<client, presence, disconnectCalled>>
    /\ UNCHANGED <<cmdVars, serverVars, queueVars>>

\* xmpp_client.event(ev): every registered handler of ev runs and, being
\* disposable, is removed. FiredFut and FiredError are the futures and errors
\* after the handlers ran.
FiredFut(ev) ==
    [t \in Tasks |->
        IF <<ev, t>> \in handlers THEN Handler(ev, fut[t], error[t]).fut ELSE fut[t]]

FiredError(ev) ==
    [t \in Tasks |->
        IF <<ev, t>> \in handlers THEN Handler(ev, fut[t], error[t]).error ELSE error[t]]

FiredHandlers(ev) == {x \in handlers : x[1] # ev}

\* History: the first signal emitted while the task waits.
FiredFirst(ev) ==
    [t \in Tasks |-> IF pc[t] = "waiting" /\ first[t] = "none" THEN ev ELSE first[t]]

\* wait_for's timer is of no use once the future is done.
FiredTimer(ev) ==
    [t \in Tasks |->
        IF pc[t] = "waiting" /\ FiredFut(ev)[t] # "pending" THEN 0 ELSE timer[t]]

Fire(ev) ==
    /\ fut' = FiredFut(ev)
    /\ error' = FiredError(ev)
    /\ handlers' = FiredHandlers(ev)
    /\ first' = FiredFirst(ev)
    /\ timer' = FiredTimer(ev)

\* The "disconnected" event: the handler __reconnect registered in __init__ is a
\* coroutine, so every event starts one more __reconnect, which logs
\* "Reconnecting" and sleeps. p, r: pc and result before the event.
DisconnectedPc(p) ==
    IF client /\ FreeIn(p) # {} THEN [p EXCEPT ![LeastFreeIn(p)] = "sleeping"] ELSE p

DisconnectedResult(p, r) ==
    IF client /\ FreeIn(p) # {} THEN [r EXCEPT ![LeastFreeIn(p)] = NoResult] ELSE r

\* The model runs at most MaxLoops coroutines: the event waits for a free one.
CanEmitDisconnected == client => FreeLoops # {}

\* slixmpp emits session_start once the stream is negotiated.
SessionStart ==
    /\ conn = "connecting"
    /\ conn' = "established"
    /\ Fire("session_start")
    /\ UNCHANGED <<client, presence, disconnectCalled, pc, result, logged>>
    /\ UNCHANGED <<cmdVars, serverVars, queueVars>>

\* slixmpp emits connection_failed and keeps trying to connect.
ConnectionFailed ==
    /\ conn = "connecting"
    /\ Fire("connection_failed")
    /\ UNCHANGED <<conn, client, presence, disconnectCalled, pc, result, logged>>
    /\ UNCHANGED <<cmdVars, serverVars, queueVars>>

\* slixmpp emits failed_auth; the server then closes the stream.
FailedAuth ==
    /\ conn = "connecting"
    /\ Fire("failed_auth")
    /\ UNCHANGED <<conn, client, presence, disconnectCalled, pc, result, logged>>
    /\ UNCHANGED <<cmdVars, serverVars, queueVars>>

\* The transport is lost: slixmpp emits session_end, then disconnected.
ConnectionLost ==
    /\ conn \in {"connecting", "established", "closing"}
    /\ CanEmitDisconnected
    /\ conn' = "down"
    /\ presence' = FALSE
    /\ fut' = FiredFut("session_end")
    /\ error' = FiredError("session_end")
    /\ handlers' = FiredHandlers("session_end")
    /\ timer' = FiredTimer("session_end")
    /\ first' = FiredFirst("session_end")
    /\ pc' = DisconnectedPc(pc)
    /\ result' = DisconnectedResult(pc, result)
    /\ UNCHANGED <<client, disconnectCalled, logged>>
    /\ UNCHANGED <<cmdVars, serverVars, queueVars>>

\* Time advances in steps of the shorter of the two delays of the program: both
\* deadlines (5 s and 10 s) fall on a step, and a signal may be emitted at any
\* point between two steps.
TimeStep == ReconnectSleep

\* TimeStep seconds pass for every running sleep and every pending wait_for.
Sleeping(t) == pc[t] = "sleeping"

Pending(t) == pc[t] = "waiting" /\ fut[t] = "pending"

Tick ==
    /\ \E t \in Tasks : Sleeping(t) \/ Pending(t)
    /\ \A t \in Tasks : Sleeping(t) => timer[t] < SleepDuration
    /\ \A t \in Tasks : Pending(t) => timer[t] < SessionTimeout
    /\ timer' = [t \in Tasks |->
                   IF Sleeping(t) \/ Pending(t) THEN timer[t] + TimeStep ELSE timer[t]]
    /\ UNCHANGED <<conn, handlers, client, presence, disconnectCalled,
                   pc, fut, error, first, result, logged>>
    /\ UNCHANGED <<cmdVars, serverVars, queueVars>>

\* asyncio.wait_for(session_state, 10) runs out: the future is cancelled.
Timeout(t) ==
    /\ Pending(t)
    /\ timer[t] = SessionTimeout
    /\ fut' = [fut EXCEPT ![t] = "cancelled"]
    /\ first' = [first EXCEPT ![t] = "timeout"]
    /\ timer' = [timer EXCEPT ![t] = 0]
    /\ UNCHANGED <<conn, handlers, client, presence, disconnectCalled,
                   pc, error, result, logged>>
    /\ UNCHANGED <<cmdVars, serverVars, queueVars>>

\* The wait of ClientAsync.connect is over: the finally block, then either the
\* error leaves connect, or the client is built (__init__ registers
\* __reconnect), the data handler is registered and presence is sent.
ConnectResume ==
    /\ pc[ConnectTask] = "waiting"
    /\ fut[ConnectTask] \notin {"pending", "none"}
    /\ handlers' = Deregister(handlers, ConnectTask)
    /\ LET out == WaitOutcome(fut[ConnectTask], error[ConnectTask]) IN
        /\ result' = [result EXCEPT ![ConnectTask] = out]
        /\ IF out.kind = "ok"
           THEN /\ client' = TRUE
                /\ presence' = TRUE
                /\ pc' = [pc EXCEPT ![ConnectTask] = "done"]
           ELSE /\ pc' = [pc EXCEPT ![ConnectTask] = "raised"]
                /\ UNCHANGED <<client, presence>>
    /\ UNCHANGED <<conn, disconnectCalled, fut, error, timer, first, logged>>
    /\ UNCHANGED <<cmdVars, serverVars, queueVars>>

\* The sleep of __reconnect is over: xmpp_client.connect(), then the wait begins.
ReconnectAttempt(l) ==
    /\ pc[l] = "sleeping"
    /\ timer[l] = SleepDuration
    /\ conn' = "connecting"
    /\ presence' = FALSE
    /\ BeginWait(l)
    /\ UNCHANGED <<client, disconnectCalled>>
    /\ UNCHANGED <<cmdVars, serverVars, queueVars>>

\* The wait of __reconnect is over: the finally block, then return on success,
\* or logging.error(e) and the next round of the loop. An error the except
\* clause does not catch leaves the coroutine and stays in result.
ReconnectResume(l) ==
    /\ pc[l] = "waiting"
    /\ fut[l] \notin {"pending", "none"}
    /\ handlers' = Deregister(handlers, l)
    /\ LET out == WaitOutcome(fut[l], error[l]) IN
        /\ pc' = [pc EXCEPT ![l] = LoopAfterWait(out.kind)]
        /\ logged' = [logged EXCEPT ![l] = IF Caught(out.kind) THEN out ELSE NoResult]
        /\ result' = [result EXCEPT ![l] = IF Caught(out.kind) THEN NoResult ELSE out]
    /\ fut' = [fut EXCEPT ![l] = "none"]
    /\ error' = [error EXCEPT ![l] = "none"]
    /\ first' = [first EXCEPT ![l] = "none"]
    /\ UNCHANGED <<conn, client, presence, disconnectCalled, timer>>
    /\ UNCHANGED <<cmdVars, serverVars, queueVars>>

\* What the caller's disconnect acts on: the session, the loops, the listeners.
ClientState ==
    [conn |-> conn, called |-> disconnectCalled, pc |-> pc, result |-> result,
     handlers |-> handlers]

\* ClientAsync.disconnect: xmpp_client.disconnect(). With a transport slixmpp
\* closes the stream and emits disconnected once the transport is gone; without
\* one it emits disconnected at once. s: the client state before the call.
DisconnectEffect(s) ==
    IF s.conn = "down"
    THEN [s EXCEPT !.called = TRUE,
                   !.pc = DisconnectedPc(s.pc),
                   !.result = DisconnectedResult(s.pc, s.result)]
    ELSE [s EXCEPT !.called = TRUE, !.conn = "closing"]

Disconnect ==
    /\ client
    /\ conn = "down" => CanEmitDisconnected
    /\ LET s == DisconnectEffect(ClientState) IN
        /\ conn' = s.conn
        /\ disconnectCalled' = s.called
        /\ pc' = s.pc
        /\ result' = s.result
        /\ handlers' = s.handlers
    /\ UNCHANGED <<client, presence, fut, error, timer, first, logged>>
    /\ UNCHANGED <<cmdVars, serverVars, queueVars>>

Next ==
    \/ ConnectCall
    \/ SessionStart
    \/ ConnectionFailed
    \/ FailedAuth
    \/ ConnectionLost
    \/ Tick
    \/ \E t \in Tasks : Timeout(t)
    \/ ConnectResume
    \/ \E l \in Loops : ReconnectAttempt(l)
    \/ \E l \in Loops : ReconnectResume(l)
    \/ Disconnect

Spec == Init /\ [][Next]_vars

\* The asyncio event loop runs every coroutine whose awaited future is done.
FairSpec ==
    /\ Spec
    /\ \A l \in Loops : WF_vars(ReconnectResume(l))

(***************************************************************************)
(* Commands: get_history, subscribe, unsubscribe                           *)
(***************************************************************************)

\* start_time / end_time as the caller passes them: None, a datetime without
\* tzinfo, a datetime with tzinfo.
TimeArgs == {"omitted", "naive", "aware"}

\* The status attribute of the command element of a result Iq.
Statuses == {"completed", "executing", "canceled"}

\* The quoalise data element in the payload of a result Iq.
DataElements == {"data-a", "data-b"}

\* The condition of an error Iq.
Conditions ==
    {"not-authorized", "service-unavailable", "bad-request", "undefined-condition",
     "item-not-found", "remote-server-timeout"}

\* The text of an error Iq.
Texts == {"", "quota exceeded"}

\* The {urn:quoalise:0}upstream-error element of an error Iq, when there is one.
NoUpstream == [issuer |-> "", code |-> ""]

UpstreamErrors ==
    {[issuer |-> "enedis-data-connect", code |-> "ADAM-ERR0069"],
     [issuer |-> "proxy", code |-> "503"]}

ErrorResponses ==
    [type : {"error"}, condition : Conditions, text : Texts,
     upstream : UpstreamErrors \cup {NoUpstream}]

\* A converter that has no branch for bad-request.
ConvertWithoutBadRequest(r) ==
    IF r.condition = "not-authorized"
    THEN [kind |-> "NotAuthorized", text |-> r.text]
    ELSE IF r.condition = "service-unavailable"
    THEN [kind |-> "ServiceUnavailable", text |-> r.text]
    ELSE IF r.condition = "undefined-condition" /\ r.upstream # NoUpstream
    THEN [kind |-> "UpstreamError", text |-> r.text,
          issuer |-> r.upstream.issuer, code |-> r.upstream.code]
    ELSE [kind |-> "IqError", error |-> r]

\* A converter that swallows the error of a condition it has no branch for.
ConvertDropsUnmapped(r) ==
    IF r.condition = "not-authorized"
    THEN [kind |-> "NotAuthorized", text |-> r.text]
    ELSE IF r.condition = "service-unavailable"
    THEN [kind |-> "ServiceUnavailable", text |-> r.text]
    ELSE IF r.condition = "bad-request"
    THEN [kind |-> "BadRequest", text |-> r.text]
    ELSE IF r.condition = "undefined-condition" /\ r.upstream # NoUpstream
    THEN [kind |-> "UpstreamError", text |-> r.text,
          issuer |-> r.upstream.issuer, code |-> r.upstream.code]
    ELSE [kind |-> "None"]

\* IqErrorConverter.convert on the IqError r, and __exit__ returning False when
\* convert raised nothing: what leaves the with block.
Convert(r) ==
    IF r.condition = "not-authorized"
    THEN [kind |-> "NotAuthorized", text |-> r.text]
    ELSE IF r.condition = "service-unavailable"
    THEN [kind |-> "ServiceUnavailable", text |-> r.text]
    ELSE IF r.condition = "bad-request"
    THEN [kind |-> "BadRequest", text |-> r.text]
    ELSE IF r.condition = "undefined-condition" /\ r.upstream # NoUpstream
    THEN [kind |-> "UpstreamError", text |-> r.text,
          issuer |-> r.upstream.issuer, code |-> r.upstream.code]
    ELSE [kind |-> "IqError", error |-> r]

\* IqErrorConverter.__exit__: only an exception whose type is IqError is
\* converted; IqTimeout leaves the with block as it is.
LeavesWith(r) ==
    IF r.type = "error" THEN Convert(r) ELSE [kind |-> "IqTimeout"]

\* A form that always has the two time fields, empty when the time is omitted.
HistoryFieldsAlwaysAll(st, et) == {"identifier", "start_time", "end_time"}

\* The fields of the submit form get_history builds.
HistoryFields(st, et) ==
    {"identifier"}
        \cup (IF st = "aware" THEN {"start_time"} ELSE {})
        \cup (IF et = "aware" THEN {"end_time"} ELSE {})

\* Data.from_xml on the data element d of a response payload.
FromXml(d) == [kind |-> "Data", xml |-> d]

\* A command that takes every response for a completed one.
AfterResponseIgnoresStatus(node, status, d) ==
    IF node = "get_history" THEN FromXml(d) ELSE [kind |-> "None"]

\* After iq.send() returned: status "completed" gives the Data decoded from the
\* data element d of the response (get_history) or nothing (subscribe,
\* unsubscribe), any other status raises RuntimeError.
AfterResponse(node, status, d) ==
    IF status = "completed"
    THEN IF node = "get_history" THEN FromXml(d) ELSE [kind |-> "None"]
    ELSE [kind |-> "RuntimeError", status |-> status]

\* A get_history that checks the tzinfo of start_time only.
GetHistoryChecksStartOnly(st, et) ==
    /\ client
    /\ cpc = "idle"
    /\ call' = [op |-> "get_history", start_time |-> st, end_time |-> et]
    /\ IF st = "naive"
       THEN /\ surfaced' = [kind |-> "ValueError"]
            /\ cpc' = "finished"
            /\ UNCHANGED request
       ELSE /\ request' = [node |-> "get_history", fields |-> HistoryFields(st, et)]
            /\ cpc' = "awaiting"
            /\ UNCHANGED surfaced
    /\ UNCHANGED <<response, sessionVars, serverVars, queueVars>>

\* ClientAsync.get_history up to the await of iq.send(): a naive datetime raises
\* ValueError before the Iq is built; otherwise the Iq is sent.
GetHistory(st, et) ==
    /\ client
    /\ cpc = "idle"
    /\ call' = [op |-> "get_history", start_time |-> st, end_time |-> et]
    /\ IF st = "naive" \/ et = "naive"
       THEN /\ surfaced' = [kind |-> "ValueError"]
            /\ cpc' = "finished"
            /\ UNCHANGED request
       ELSE /\ request' = [node |-> "get_history", fields |-> HistoryFields(st, et)]
            /\ cpc' = "awaiting"
            /\ UNCHANGED surfaced
    /\ UNCHANGED <<response, sessionVars, serverVars, queueVars>>

\* ClientAsync.subscribe up to the await of iq.send().
Subscribe ==
    /\ client
    /\ cpc = "idle"
    /\ call' = [op |-> "subscribe", start_time |-> "omitted", end_time |-> "omitted"]
    /\ request' = [node |-> "subscribe", fields |-> {"identifier"}]
    /\ cpc' = "awaiting"
    /\ UNCHANGED <<response, surfaced, sessionVars, serverVars, queueVars>>

\* ClientAsync.unsubscribe up to the await of iq.send().
Unsubscribe ==
    /\ client
    /\ cpc = "idle"
    /\ call' = [op |-> "unsubscribe", start_time |-> "omitted", end_time |-> "omitted"]
    /\ request' = [node |-> "unsubscribe", fields |-> {"identifier"}]
    /\ cpc' = "awaiting"
    /\ UNCHANGED <<response, surfaced, sessionVars, serverVars, queueVars>>

\* The result Iq arrives: the command element is read and its status decides.
ResultArrives(status, d) ==
    /\ cpc = "awaiting"
    /\ conn \in {"established", "closing"}
    /\ response' = [type |-> "result", status |-> status, data |-> d]
    /\ surfaced' = AfterResponse(request.node, status, d)
    /\ cpc' = "finished"
    /\ UNCHANGED <<call, request, sessionVars, serverVars, queueVars>>

\* An error Iq arrives: iq.send() raises IqError inside the with block.
ErrorArrives(r) ==
    /\ cpc = "awaiting"
    /\ conn \in {"established", "closing"}
    /\ response' = r
    /\ surfaced' = LeavesWith(r)
    /\ cpc' = "finished"
    /\ UNCHANGED <<call, request, sessionVars, serverVars, queueVars>>

\* No answer arrives in time: iq.send() raises IqTimeout inside the with block.
NoAnswer ==
    /\ cpc = "awaiting"
    /\ response' = [type |-> "timeout"]
    /\ surfaced' = LeavesWith([type |-> "timeout"])
    /\ cpc' = "finished"
    /\ UNCHANGED <<call, request, sessionVars, serverVars, queueVars>>

\* The caller has its value or its exception; the Iq of the round trip is gone.
CallerContinues ==
    /\ cpc = "finished"
    /\ cpc' = "idle"
    /\ call' = NoCall
    /\ request' = NoRequest
    /\ response' = NoResponse
    /\ surfaced' = NoOutcome
    /\ UNCHANGED <<sessionVars, serverVars, queueVars>>

\* The client and its commands, with the session as far as the caller acts on
\* it (connect, disconnect) and the library emits its events; the steps of the
\* __reconnect coroutines are left to Spec.
CmdNext ==
    \/ ConnectCall
    \/ SessionStart
    \/ ConnectionFailed
    \/ FailedAuth
    \/ ConnectionLost
    \/ Tick
    \/ Timeout(ConnectTask)
    \/ ConnectResume
    \/ Disconnect
    \/ \E st \in TimeArgs, et \in TimeArgs : GetHistory(st, et)
    \/ Subscribe
    \/ Unsubscribe
    \/ \E status \in Statuses, d \in DataElements : ResultArrives(status, d)
    \/ \E r \in ErrorResponses : ErrorArrives(r)
    \/ NoAnswer
    \/ CallerContinues

SpecCmd == Init /\ [][CmdNext]_vars

(***************************************************************************)
(* The command handlers of the server                                      *)
(***************************************************************************)

\* How many times a client submits to one command session.
MaxSubmits == 2

\* The full JIDs requests come from.
Requesters == {"alice@example.org/cli", "bob@example.org/cli"}

\* A field the submitted form does not have.
Missing == "missing"

\* The values of the form a client submits: the identifier, and the two times
\* as text that fromisoformat parses or does not parse.
SubmittedForms ==
    [kind : {"submit"},
     identifier : {"pdl-1", Missing},
     start_time : {"iso", "malformed", Missing},
     end_time : {"iso", "malformed", Missing}]

\* The messages of the errors the operator's code raises.
ServerTexts == {"not your meter", "unknown identifier"}

\* What the operator's code (default_identifier, get_history, subscribe,
\* unsubscribe) can do when it is called: return, or raise PermissionError,
\* ValueError, a subclass of ValueError, or an error of another kind.
LocalErrors ==
    [type : {"PermissionError", "ValueError", "UnicodeDecodeError", "RuntimeError"},
     text : ServerTexts]

UserOutcomes == {[type |-> "ok", text |-> ""]} \cup LocalErrors

\* The bases named in the class statement of each variant.
Bases(v) == IF v = "GetHistoryHandler" THEN {"CommandHandler"} ELSE {}

\* The node and the name each __init__ passes to super().__init__.
NodeOf(v) ==
    CASE v = "GetHistoryHandler" -> "get_history"
      [] v = "Subscribe" -> "subscribe"
      [] v = "Unsubscribe" -> "unsubscribe"

NameOf(v) ==
    CASE v = "GetHistoryHandler" -> "Get history"
      [] v = "Subscribe" -> "Subscribe"
      [] v = "Unsubscribe" -> "Unsubscribe"

VariantOf(node) == CHOOSE v \in Variants : NodeOf(v) = node

\* V(): super().__init__(node=..., name=...) is CommandHandler.__init__ when
\* CommandHandler is a base; otherwise it is object.__init__, which takes no
\* keyword argument and raises TypeError.
NewHandler(v) == IF "CommandHandler" \in Bases(v) THEN "built" ELSE "TypeError"

\* A converter that lets no local error through as it is.
ErrorToXmppConvertsAll(e) ==
    IF e.type = "PermissionError"
    THEN [kind |-> "XMPPError", condition |-> "not-authorized", etype |-> "default",
          text |-> e.text]
    ELSE IF e.type = "ValueError"
    THEN [kind |-> "XMPPError", condition |-> "bad-request", etype |-> "modify",
          text |-> e.text]
    ELSE [kind |-> "XMPPError", condition |-> "undefined-condition", etype |-> "default",
          text |-> e.text]

\* ErrorToXmppConverter.__exit__ on the exception e raised inside the with
\* block: what leaves the block.
ErrorToXmpp(e) ==
    IF e.type = "PermissionError"
    THEN [kind |-> "XMPPError", condition |-> "not-authorized", etype |-> "default",
          text |-> e.text]
    ELSE IF e.type = "ValueError"
    THEN [kind |-> "XMPPError", condition |-> "bad-request", etype |-> "modify",
          text |-> e.text]
    ELSE [kind |-> e.type, text |-> e.text]

Returned == [kind |-> "returned"]

\* make_form(ftype="form", title=self.name) after fill_form added its fields.
RenderedForm(v, fields) ==
    [kind |-> "form", ftype |-> "form", title |-> NameOf(v), fields |-> fields]

\* make_form(ftype="result", title="Get history") after execute added its fields.
ResultForm(fields) ==
    [kind |-> "form", ftype |-> "result", title |-> "Get history", fields |-> fields]

\* The Data the operator's get_history returns for an identifier.
HistoryOf(identifier) == [kind |-> "Data", identifier |-> identifier]

None == [kind |-> "None"]

\* fill_form of variant v on a new form; u is what default_identifier() does
\* where it is called.
FillForm(v, u) ==
    IF v = "GetHistoryHandler"
    THEN IF u.type # "ok"
         THEN [raised |-> u, fields |-> {}]
         ELSE [raised |-> NoError, fields |-> {"identifier", "start_time", "end_time"}]
    ELSE [raised |-> NoError, fields |-> {"identifier"}]

\* execute of variant v on the payload; u is what the operator's get_history,
\* subscribe or unsubscribe does when the call reaches it.
Execute(v, payload, u) ==
    IF payload.kind # "submit"
    THEN [raised |-> [type |-> "TypeError", text |-> "list indices"],
          value |-> None, fields |-> {}]
    ELSE IF payload.identifier = Missing
    THEN [raised |-> [type |-> "KeyError", text |-> "identifier"],
          value |-> None, fields |-> {}]
    ELSE IF v = "GetHistoryHandler" /\ payload.start_time = Missing
    THEN [raised |-> [type |-> "KeyError", text |-> "start_time"],
          value |-> None, fields |-> {}]
    ELSE IF v = "GetHistoryHandler" /\ payload.start_time = "malformed"
    THEN [raised |-> [type |-> "ValueError", text |-> "Invalid isoformat string"],
          value |-> None, fields |-> {}]
    ELSE IF v = "GetHistoryHandler" /\ payload.end_time = Missing
    THEN [raised |-> [type |-> "KeyError", text |-> "end_time"],
          value |-> None, fields |-> {}]
    ELSE IF v = "GetHistoryHandler" /\ payload.end_time = "malformed"
    THEN [raised |-> [type |-> "ValueError", text |-> "Invalid isoformat string"],
          value |-> None, fields |-> {}]
    ELSE IF u.type # "ok"
    THEN [raised |-> u, value |-> None, fields |-> {}]
    ELSE [raised |-> NoError,
          value |-> IF v = "GetHistoryHandler" THEN HistoryOf(payload.identifier) ELSE None,
          fields |-> {"result"}]

\* A handle_submit that marks the session terminal before it calls execute.
HandleSubmitClearsNextFirst(v, payload, sess, u) ==
    LET r == Execute(v, payload, u)
        made == [client |-> sess.from, payload |-> payload]
    IN  IF r.raised # NoError
        THEN [session |-> [sess EXCEPT !.next = "none"], raised |-> r.raised,
              left |-> ErrorToXmpp(r.raised), calls |-> <<made>>, forms |-> 0]
        ELSE [session |-> [sess EXCEPT
                              !.next = "none",
                              !.payload = [kind |-> "list",
                                           items |-> <<ResultForm(r.fields), r.value>>]],
              raised |-> NoError, left |-> Returned, calls |-> <<made>>, forms |-> 0]

\* A handle_submit that stores the result and leaves session["next"] as it was.
HandleSubmitKeepsNext(v, payload, sess, u) ==
    LET r == Execute(v, payload, u)
        made == [client |-> sess.from, payload |-> payload]
    IN  IF r.raised # NoError
        THEN [session |-> sess, raised |-> r.raised, left |-> ErrorToXmpp(r.raised),
              calls |-> <<made>>, forms |-> 0]
        ELSE [session |-> [sess EXCEPT
                              !.payload = [kind |-> "list",
                                           items |-> <<ResultForm(r.fields), r.value>>]],
              raised |-> NoError, left |-> Returned, calls |-> <<made>>, forms |-> 0]

\* CommandHandler.handle_submit(payload, sess) of variant v: the session as the
\* call leaves it, what execute raised, what left the handler, and the
\* arguments execute was called with.
HandleSubmit(v, payload, sess, u) ==
    LET r == Execute(v, payload, u)
        made == [client |-> sess.from, payload |-> payload]
    IN  IF r.raised # NoError
        THEN [session |-> sess, raised |-> r.raised, left |-> ErrorToXmpp(r.raised),
              calls |-> <<made>>, forms |-> 0]
        ELSE [session |-> [sess EXCEPT
                              !.next = "none",
                              !.payload = [kind |-> "list",
                                           items |-> <<ResultForm(r.fields), r.value>>]],
              raised |-> NoError, left |-> Returned, calls |-> <<made>>, forms |-> 0]

\* A handle_request that renders the form whatever the Iq carries.
HandleRequestAlwaysRenders(v, iq, sess, u) ==
    LET f == FillForm(v, u)
    IN  IF f.raised # NoError
        THEN [session |-> sess, raised |-> f.raised, left |-> ErrorToXmpp(f.raised),
              calls |-> <<>>, forms |-> 1]
        ELSE [session |-> [sess EXCEPT
                              !.payload = RenderedForm(v, f.fields),
                              !.next = "handle_submit"],
              raised |-> NoError, left |-> Returned, calls |-> <<>>, forms |-> 1]

\* CommandHandler.handle_request(iq, sess) of variant v.
HandleRequest(v, iq, sess, u) ==
    IF iq.payload # EmptyPayload
    THEN HandleSubmit(v, sess.payload, sess, u)
    ELSE LET f == FillForm(v, u)
         IN  IF f.raised # NoError
             THEN [session |-> sess, raised |-> f.raised, left |-> ErrorToXmpp(f.raised),
                   calls |-> <<>>, forms |-> 1]
             ELSE [session |-> [sess EXCEPT
                                   !.payload = RenderedForm(v, f.fields),
                                   !.next = "handle_submit"],
                   raised |-> NoError, left |-> Returned, calls |-> <<>>, forms |-> 1]

\* server.add_handler(V()): the operator makes an instance of variant v and
\* registers its handle_request for its node.
AddHandler(v) ==
    /\ handlerOf[v] = "none"
    /\ handlerOf' = [handlerOf EXCEPT ![v] =
                        IF NewHandler(v) = "built" THEN "registered" ELSE NewHandler(v)]
    /\ UNCHANGED <<session, inbound, raised, left, executed, rendered>>
    /\ UNCHANGED <<sessionVars, cmdVars, queueVars>>

\* A command Iq without session id arrives for the node of variant v: the
\* library makes the session dict, with the payload the Iq carries, and calls
\* the registered handle_request.
CommandStart(v, who, carried, u) ==
    /\ handlerOf[v] = "registered"
    /\ inbound = NoInbound
    /\ LET iq == [payload |-> carried]
           initial == [node |-> NodeOf(v), from |-> who, payload |-> carried,
                       next |-> "none"]
           r == HandleRequest(v, iq, initial, u)
       IN  /\ session' = r.session
           /\ raised' = r.raised
           /\ left' = r.left
           /\ executed' = r.calls
           /\ rendered' = r.forms
    /\ inbound' = [phase |-> "start", payload |-> carried]
    /\ UNCHANGED <<handlerOf, sessionVars, cmdVars, queueVars>>

\* A command Iq with the id of the stored session arrives: the library calls
\* session["next"] with the payload the Iq carries.
CommandNext(submitted, u) ==
    /\ session.next = "handle_submit"
    /\ Len(executed) < MaxSubmits
    /\ LET r == HandleSubmit(VariantOf(session.node), submitted, session, u)
       IN  /\ session' = r.session
           /\ raised' = r.raised
           /\ left' = r.left
           /\ executed' = executed \o r.calls
           /\ rendered' = rendered + r.forms
    /\ inbound' = [phase |-> "next", payload |-> submitted]
    /\ UNCHANGED <<handlerOf, sessionVars, cmdVars, queueVars>>

\* The session is over: it completed, its first request failed, or the client
\* gave it up.
SessionEnds ==
    /\ inbound # NoInbound
    /\ session' = NoSession
    /\ inbound' = NoInbound
    /\ raised' = NoError
    /\ left' = NoLeft
    /\ executed' = <<>>
    /\ rendered' = 0
    /\ UNCHANGED <<handlerOf, sessionVars, cmdVars, queueVars>>

ServerNext ==
    \/ \E v \in Variants : AddHandler(v)
    \/ \E v \in Variants, who \in Requesters,
          carried \in SubmittedForms \cup {EmptyPayload}, u \in UserOutcomes :
            CommandStart(v, who, carried, u)
    \/ \E submitted \in SubmittedForms \cup {EmptyPayload}, u \in UserOutcomes :
            CommandNext(submitted, u)
    \/ SessionEnds

SpecServer == Init /\ [][ServerNext]_vars

(***************************************************************************)
(* The queue of pushed data                                                *)
(***************************************************************************)

\* How many data messages arrive.
MaxMessages == 3

\* How many operations a consumer holds from listen without awaiting them.
MaxYielded == 2

\* The maxsize of asyncio.Queue(): zero, which stands for no limit.
QueueMaxSize == 0

\* Queue.full().
Full(q) == QueueMaxSize > 0 /\ Len(q) >= QueueMaxSize

\* put_nowait on a queue that holds one item at most: a second item is refused.
PutNowaitBounded(q, item) == IF Len(q) >= 1 THEN q ELSE Append(q, item)

\* Queue.put_nowait: the item goes to the end unless the queue is full.
PutNowait(q, item) == IF Full(q) THEN q ELSE Append(q, item)

\* The first of the suspended getters is woken and leaves the waiters.
WakeupNext(g) == IF g = <<>> THEN g ELSE Tail(g)

\* A queue that hands out its newest item.
GetNewest(q) == [item |-> q[Len(q)], rest |-> SubSeq(q, 1, Len(q) - 1)]

\* Queue.get_nowait on a queue that is not empty: the oldest item leaves.
GetNowait(q) == [item |-> Head(q), rest |-> Tail(q)]

\* Queue.get of consumer c, from its start or from its wake-up: on an empty
\* queue it suspends as the last getter; otherwise it takes an item, and
\* wait_for_data returns that item to c.
Get(c) ==
    IF incoming_data = <<>>
    THEN /\ getters' = Append(getters, c)
         /\ qpc' = [qpc EXCEPT ![c] = "waiting"]
         /\ UNCHANGED <<incoming_data, delivered>>
    ELSE /\ incoming_data' = GetNowait(incoming_data).rest
         /\ delivered' = Append(delivered,
                                [to |-> c, item |-> GetNowait(incoming_data).item])
         /\ qpc' = [qpc EXCEPT ![c] = "idle"]
         /\ UNCHANGED getters

\* ClientAsync.handle_message_data: a message matching the data selector was
\* received; its data element is decoded and put in the queue.
HandleMessageData(d) ==
    /\ client
    /\ conn = "established"
    /\ Len(enqueued) < MaxMessages
    /\ incoming_data' = PutNowait(incoming_data, FromXml(d))
    /\ enqueued' = Append(enqueued, FromXml(d))
    /\ getters' = WakeupNext(getters)
    /\ qpc' = IF getters = <<>> THEN qpc ELSE [qpc EXCEPT ![Head(getters)] = "woken"]
    /\ UNCHANGED <<yielded, delivered>>
    /\ UNCHANGED <<sessionVars, cmdVars, serverVars>>

\* ClientAsync.wait_for_data called and awaited by consumer c (Client.listen
\* does so once for every item it yields).
WaitForData(c) ==
    /\ client
    /\ qpc[c] = "idle"
    /\ Get(c)
    /\ UNCHANGED <<yielded, enqueued>>
    /\ UNCHANGED <<sessionVars, cmdVars, serverVars>>

\* Queue.get of consumer c goes on after its wake-up.
GetResume(c) ==
    /\ qpc[c] = "woken"
    /\ Get(c)
    /\ UNCHANGED <<yielded, enqueued>>
    /\ UNCHANGED <<sessionVars, cmdVars, serverVars>>

\* One step of ClientAsync.listen for consumer c: it yields the coroutine
\* object of a wait_for_data call, which has not started.
Listen(c) ==
    /\ client
    /\ yielded[c] < MaxYielded
    /\ yielded' = [yielded EXCEPT ![c] = @ + 1]
    /\ UNCHANGED <<incoming_data, getters, qpc, enqueued, delivered>>
    /\ UNCHANGED <<sessionVars, cmdVars, serverVars>>

\* Consumer c awaits an operation listen yielded to it: wait_for_data starts.
AwaitYielded(c) ==
    /\ yielded[c] > 0
    /\ qpc[c] = "idle"
    /\ yielded' = [yielded EXCEPT ![c] = @ - 1]
    /\ Get(c)
    /\ UNCHANGED enqueued
    /\ UNCHANGED <<sessionVars, cmdVars, serverVars>>

\* Consumer c drops an operation listen yielded to it without awaiting it.
DropYielded(c) ==
    /\ yielded[c] > 0
    /\ yielded' = [yielded EXCEPT ![c] = @ - 1]
    /\ UNCHANGED <<incoming_data, getters, qpc, enqueued, delivered>>
    /\ UNCHANGED <<sessionVars, cmdVars, serverVars>>

\* The queue with its producer and its consumers, after a connect that
\* succeeds.
QueueNext ==
    \/ ConnectCall
    \/ SessionStart
    \/ ConnectResume
    \/ \E d \in DataElements : HandleMessageData(d)
    \/ \E c \in Consumers :
          \/ WaitForData(c)
          \/ GetResume(c)
          \/ Listen(c)
          \/ AwaitYielded(c)
          \/ DropYielded(c)

SpecQueue == Init /\ [][QueueNext]_vars

\* The event loop resumes a woken getter, and the consumers go on calling
\* wait_for_data as the loop of Client.listen does.
FairSpecQueue ==
    /\ SpecQueue
    /\ \A c \in Consumers : WF_vars(GetResume(c)) /\ WF_vars(WaitForData(c))

(***************************************************************************)
(* Session-start wait                                                      *)
(***************************************************************************)

FailureSignals == SignalNames \ {"session_start"}

\* What the first signal of a wait must lead to.
OutcomeOfSignal(ev) ==
    IF ev = "session_start" THEN OkResult ELSE ConnectionFailedResult(ev)

\* What left the last wait of task t: the value connect returned or raised, and
\* for a reconnect loop the error it logged or the success it returned on.
ExitOutcome(t) ==
    IF t \in Loops /\ pc[t] = "sleeping" THEN logged[t] ELSE result[t]

WaitEnds(t) == pc[t] = "waiting" /\ pc'[t] # "waiting"

\* C1: in every wait the first of the four signals alone decides the outcome:
\* session_start first gives success, any of the other three first gives
\* ConnectionFailed with the message of that signal, and a later signal changes
\* neither the future nor the error nor the outcome.
C1_FirstSignalDecides ==
    [][\A t \in Tasks :
          /\ (pc[t] = "waiting" /\ first[t] \in SignalNames) =>
                /\ fut[t] = (IF first[t] = "session_start" THEN "true" ELSE "false")
                /\ error[t] = (IF first[t] = "session_start" THEN "none" ELSE first[t])
          /\ (WaitEnds(t) /\ first[t] \in SignalNames) =>
                ExitOutcome(t)' = OutcomeOfSignal(first[t])]_vars

\* C1 witness: session_start came first, session_end came after it (its
\* disposable handler is gone) and the wait is still resolved to success.
C1_Witness ==
    \E t \in Tasks :
        /\ pc[t] = "waiting"
        /\ first[t] = "session_start"
        /\ <<"session_end", t>> \notin handlers
        /\ fut[t] = "true"

\* C2: when the 10 seconds run out before any signal, connect fails with
\* ConnectionFailed and with no other kind of error.
C2_TimeoutIsConnectionFailed ==
    (pc[ConnectTask] \in {"done", "raised"} /\ first[ConnectTask] = "timeout") =>
        result[ConnectTask].kind = "ConnectionFailed"

\* C3: a task that is not inside a wait has none of its four listeners
\* registered, whichever way the wait ended, and the registry never holds more
\* than the four listeners of each wait in progress.
C3_ListenersDeregistered ==
    /\ \A x \in handlers : pc[x[2]] = "waiting"
    /\ Cardinality(handlers) <= 4 * Cardinality({t \in Tasks : pc[t] = "waiting"})

\* C3 witness: a reconnect loop whose last wait timed out sleeps again and the
\* registry is empty.
C3_Witness ==
    \E l \in Loops :
        /\ pc[l] = "sleeping"
        /\ logged[l] = TimeoutResult
        /\ handlers = {}

(***************************************************************************)
(* Reconnection                                                            *)
(***************************************************************************)

\* C4: at most one reconnect loop is in flight at any time.
C4_AtMostOneReconnectLoop == Cardinality(InFlight) <= 1

\* The outcome of a wait that failed, from what ended it first.
OutcomeOfFailure(what) ==
    IF what = "timeout" THEN TimeoutResult ELSE ConnectionFailedResult(what)

\* C5: a reconnect attempt starts only when its sleep lasted exactly 5 seconds;
\* a wait that failed, by a failure signal or by the timeout, is logged and the
\* loop sleeps again from zero; no error ever leaves the loop.
C5_ReconnectRetriesForever ==
    [][\A l \in Loops :
          /\ pc'[l] # "raised"
          /\ (pc[l] = "sleeping" /\ pc'[l] = "waiting") => timer[l] = ReconnectSleep
          /\ (WaitEnds(l) /\ first[l] \in FailureSignals \cup {"timeout"}) =>
                /\ pc'[l] = "sleeping"
                /\ timer'[l] = 0
                /\ logged'[l] = OutcomeOfFailure(first[l])]_vars

\* C5 witness: a loop has logged a failure signal and slept its 5 seconds again.
C5_Witness ==
    \E l \in Loops :
        /\ pc[l] = "sleeping"
        /\ timer[l] = ReconnectSleep
        /\ logged[l].kind = "ConnectionFailed"

\* A reconnect wait that session_start resolved and that has not resumed yet.
ResolvedTrue(l) == pc[l] = "waiting" /\ fut[l] = "true"

\* C6: a reconnect wait that received session_start first does not stay
\* suspended for ever, and the step that ends it is the return of the loop; at
\* the signal the session is established; and a loop returns only from a wait
\* that session_start resolved first.
C6_ReconnectSucceeds ==
    /\ \A l \in Loops : []<>(~ResolvedTrue(l))
    /\ [][\A l \in Loops :
            /\ (ResolvedTrue(l) /\ ~ResolvedTrue(l)') => pc'[l] = "done"
            /\ (fut[l] = "pending" /\ fut'[l] = "true") => conn' = "established"
            /\ (pc[l] # "done" /\ pc'[l] = "done") =>
                  (pc[l] = "waiting" /\ first[l] = "session_start")]_vars

\* C6 witness: a reconnect loop has returned on success.
C6_Witness == \E l \in Loops : pc[l] = "done" /\ result[l] = OkResult

\* C7: once the caller has called disconnect the session is never connecting or
\* established again, and an established session never goes to connecting
\* without a session loss in between.
C7_NoReconnectAfterDisconnect ==
    [][/\ disconnectCalled' => conn' \notin {"connecting", "established"}
       /\ ~(conn = "established" /\ conn' = "connecting")]_vars

\* C9: calling disconnect twice leaves the session state, the reconnect loops
\* and the listeners as calling it once does.
C9_DisconnectIdempotent ==
    (client /\ (conn = "down" => Cardinality(FreeLoops) >= 2)) =>
        DisconnectEffect(DisconnectEffect(ClientState)) = DisconnectEffect(ClientState)

(***************************************************************************)
(* Disconnect and the commands; the errors a caller sees                   *)
(***************************************************************************)

\* C8: once disconnect was called no command hands a request to the session.
C8_NoSendAfterDisconnect ==
    [][disconnectCalled => ~(cpc # "awaiting" /\ cpc' = "awaiting")]_vars

DomainKinds ==
    {"NotAuthorized", "ServiceUnavailable", "BadRequest", "UpstreamError",
     "ConnectionFailed"}

\* C10: whatever connect, get_history, subscribe or unsubscribe raise to the
\* caller is one of the five domain error kinds.
C10_OnlyDomainErrors ==
    /\ pc[ConnectTask] = "raised" => result[ConnectTask].kind \in DomainKinds
    /\ cpc = "finished" => surfaced.kind \in DomainKinds \cup {"Data", "None"}

\* The conditions the converter has a branch for.
MappedKind(r) ==
    CASE r.condition = "not-authorized" -> "NotAuthorized"
      [] r.condition = "service-unavailable" -> "ServiceUnavailable"
      [] r.condition = "bad-request" -> "BadRequest"
      [] r.condition = "undefined-condition" /\ r.upstream # NoUpstream -> "UpstreamError"
      [] OTHER -> "IqError"

\* C10 amended: a connect that a failure signal ended raises ConnectionFailed;
\* an error response with one of the four mapped conditions reaches the caller
\* as the domain error of that condition; what else a command raises is the raw
\* IqError of an unmapped condition, IqTimeout, the RuntimeError of an
\* unexpected status or the ValueError of a naive datetime.
C10_DomainErrorsWhereMapped ==
    /\ (pc[ConnectTask] = "raised" /\ first[ConnectTask] \in FailureSignals) =>
            result[ConnectTask].kind = "ConnectionFailed"
    /\ (cpc = "finished" /\ response.type = "error") =>
            surfaced.kind = MappedKind(response)
    /\ (cpc = "finished" /\ surfaced.kind \notin DomainKinds \cup {"Data", "None"}) =>
            \/ surfaced.kind = "IqError" /\ response.type = "error"
            \/ surfaced.kind = "IqTimeout" /\ response.type = "timeout"
            \/ surfaced.kind = "RuntimeError" /\ response.type = "result"
            \/ surfaced.kind = "ValueError" /\ response.type = "none"

\* C10 witness: a bad-request answer reached the caller as BadRequest.
C10_Witness ==
    /\ cpc = "finished"
    /\ response.type = "error"
    /\ response.condition = "bad-request"
    /\ surfaced.kind = "BadRequest"

\* C11: an error response with condition not-authorized, service-unavailable or
\* bad-request is raised as NotAuthorized, ServiceUnavailable or BadRequest with
\* the text of the response; undefined-condition with an upstream-error element
\* is raised as UpstreamError with the issuer and the code of that element;
\* every other error response reaches the caller as the IqError it arrived as.
C11_ClientErrorTranslation ==
    (cpc = "finished" /\ response.type = "error") =>
        /\ response.condition = "not-authorized" =>
                surfaced = [kind |-> "NotAuthorized", text |-> response.text]
        /\ response.condition = "service-unavailable" =>
                surfaced = [kind |-> "ServiceUnavailable", text |-> response.text]
        /\ response.condition = "bad-request" =>
                surfaced = [kind |-> "BadRequest", text |-> response.text]
        /\ (response.condition = "undefined-condition" /\ response.upstream # NoUpstream) =>
                surfaced = [kind |-> "UpstreamError", text |-> response.text,
                            issuer |-> response.upstream.issuer,
                            code |-> response.upstream.code]
        /\ (\/ response.condition \notin
                    {"not-authorized", "service-unavailable", "bad-request",
                     "undefined-condition"}
            \/ response.condition = "undefined-condition" /\ response.upstream = NoUpstream) =>
                surfaced = [kind |-> "IqError", error |-> response]

\* C11 witness: an undefined-condition answer without an upstream-error element
\* reached the caller as the IqError it was.
C11_Witness ==
    /\ cpc = "finished"
    /\ response.type = "error"
    /\ response.condition = "undefined-condition"
    /\ response.upstream = NoUpstream
    /\ surfaced = [kind |-> "IqError", error |-> response]

\* C12: when a result arrives with status completed, get_history returns the
\* Data decoded from the data element of that response and subscribe and
\* unsubscribe return nothing; with any other status each of the three raises
\* the error of an unexpected response and returns no value.
C12_StatusDecidesResult ==
    (cpc = "finished" /\ response.type = "result") =>
        /\ (response.status = "completed" /\ request.node = "get_history") =>
                surfaced = [kind |-> "Data", xml |-> response.data]
        /\ (response.status = "completed" /\ request.node \in {"subscribe", "unsubscribe"}) =>
                surfaced = [kind |-> "None"]
        /\ response.status # "completed" =>
                surfaced = [kind |-> "RuntimeError", status |-> response.status]

\* C12 witness: subscribe got an answer that is still executing and raised.
C12_Witness ==
    /\ cpc = "finished"
    /\ request.node = "subscribe"
    /\ response.type = "result"
    /\ response.status = "executing"
    /\ surfaced.kind = "RuntimeError"

\* C13: a get_history called with a naive start_time or a naive end_time,
\* whatever the other argument is, ends with the ValueError of the local check:
\* no Iq was built or handed to the session for it and nothing was awaited.
C13_NaiveTimeFailsBeforeSend ==
    (call.op = "get_history" /\ (call.start_time = "naive" \/ call.end_time = "naive")) =>
        /\ cpc = "finished"
        /\ surfaced = [kind |-> "ValueError"]
        /\ request = NoRequest
        /\ response = NoResponse

\* C13 witness: start_time had a timezone, end_time had none, and the call
\* ended with ValueError.
C13_Witness ==
    /\ call = [op |-> "get_history", start_time |-> "aware", end_time |-> "naive"]
    /\ cpc = "finished"
    /\ surfaced.kind = "ValueError"

\* C14: the Iq that get_history sends has a start_time field exactly when a
\* start_time was passed and an end_time field exactly when an end_time was
\* passed, next to the identifier field; with both omitted identifier is its
\* only field.
C14_TimeFieldsWhenSupplied ==
    (call.op = "get_history" /\ request.node = "get_history") =>
        /\ "identifier" \in request.fields
        /\ request.fields \subseteq {"identifier", "start_time", "end_time"}
        /\ "start_time" \in request.fields <=> call.start_time # "omitted"
        /\ "end_time" \in request.fields <=> call.end_time # "omitted"
        /\ (call.start_time = "omitted" /\ call.end_time = "omitted") =>
                request.fields = {"identifier"}

\* C14 witness: a request sent with an end_time and without a start_time.
C14_Witness ==
    /\ cpc = "awaiting"
    /\ call = [op |-> "get_history", start_time |-> "omitted", end_time |-> "aware"]
    /\ request = [node |-> "get_history", fields |-> {"identifier", "end_time"}]

(***************************************************************************)
(* The two phases of a command on the server                               *)
(***************************************************************************)

\* A submitted form whose fields execute reads without an error.
ValidFields(payload) ==
    /\ payload.kind = "submit"
    /\ payload.identifier # Missing
    /\ payload.start_time = "iso"
    /\ payload.end_time = "iso"

\* The handler was called for a first request / for a follow-up submission.
StartStep == inbound = NoInbound /\ inbound'.phase = "start"

NextStep == inbound'.phase = "next" /\ executed' # executed

\* C15: a first request without payload for a registered node never calls
\* execute and, when fill_form raised nothing, leaves the session with the
\* rendered form as payload and handle_submit as next; a follow-up submission
\* calls execute exactly once, with the JID the session came from and the
\* submitted payload, and when execute raised nothing the fields were valid
\* and the session is left with next empty and payload
\* [result_form, result_data].
C15_TwoPhaseFlow ==
    [][/\ (StartStep /\ inbound'.payload = EmptyPayload) =>
            /\ executed' = <<>>
            /\ raised' = NoError =>
                    /\ left' = Returned
                    /\ session'.payload.kind = "form"
                    /\ session'.payload.ftype = "form"
                    /\ session'.next = "handle_submit"
       /\ NextStep =>
            /\ Len(executed') = Len(executed) + 1
            /\ executed'[Len(executed')] =
                    [client |-> session.from, payload |-> inbound'.payload]
            /\ ValidFields(inbound'.payload) => raised'.type \in {"none"} \cup
                    {e.type : e \in LocalErrors}
            /\ raised' = NoError =>
                    /\ ValidFields(inbound'.payload)
                    /\ left' = Returned
                    /\ session'.next = "none"
                    /\ session'.payload.kind = "list"
                    /\ Len(session'.payload.items) = 2
                    /\ session'.payload.items[1].ftype = "result"
                    /\ session'.payload.items[2] =
                            HistoryOf(inbound'.payload.identifier)]_vars

\* C15 witness: a session that got its form in a first round trip and its
\* result in a second one, with one call of execute.
C15_Witness ==
    /\ inbound.phase = "next"
    /\ rendered = 1
    /\ Len(executed) = 1
    /\ executed[1].client = session.from
    /\ session.next = "none"
    /\ session.payload.kind = "list"

\* C16: a first request that carries a payload goes to the submit phase at
\* once: no form is made or stored, execute is called once with the requester
\* and that payload, the session never expects a submit, and when execute
\* raised nothing the session is terminal with [result_form, result_data]
\* after this one round trip.
C16_PayloadSkipsForm ==
    (inbound.phase = "start" /\ inbound.payload # EmptyPayload) =>
        /\ rendered = 0
        /\ session.payload.kind # "form"
        /\ session.next = "none"
        /\ executed = <<[client |-> session.from, payload |-> inbound.payload]>>
        /\ raised = NoError =>
                /\ left = Returned
                /\ session.payload.kind = "list"
                /\ session.payload.items[1].ftype = "result"
                /\ session.payload.items[2] = HistoryOf(inbound.payload.identifier)
        /\ raised # NoError => session.payload = inbound.payload

\* C16 witness: a first request with a submitted form ended terminal without
\* any form rendered.
C16_Witness ==
    /\ inbound.phase = "start"
    /\ inbound.payload.kind = "submit"
    /\ rendered = 0
    /\ Len(executed) = 1
    /\ session.payload.kind = "list"
    /\ left = Returned

\* C17: when fill_form or execute raised an error of type PermissionError, what
\* leaves the handler is the XMPP error not-authorized; when they raised one of
\* type ValueError it is bad-request with type modify; both carry the message
\* of the error raised; an error of any other type leaves the handler as the
\* error it is; and nothing leaves the handler when nothing was raised.
C17_ServerErrorConversion ==
    /\ raised.type = "PermissionError" =>
            /\ left.kind = "XMPPError"
            /\ left.condition = "not-authorized"
            /\ left.text = raised.text
    /\ raised.type = "ValueError" =>
            /\ left.kind = "XMPPError"
            /\ left.condition = "bad-request"
            /\ left.etype = "modify"
            /\ left.text = raised.text
    /\ raised.type \notin {"none", "PermissionError", "ValueError"} =>
            left = [kind |-> raised.type, text |-> raised.text]
    /\ raised = NoError => left \in {NoLeft, Returned}

\* C17 witness: the operator's code raised ValueError inside execute on a
\* follow-up submission, and bad-request left the handler with its message.
C17_Witness ==
    /\ inbound.phase = "next"
    /\ raised = [type |-> "ValueError", text |-> "unknown identifier"]
    /\ left = [kind |-> "XMPPError", condition |-> "bad-request", etype |-> "modify",
               text |-> "unknown identifier"]

(***************************************************************************)
(* The order of pushed data                                                *)
(***************************************************************************)

\* The items of a delivery history.
ItemsOf(h) == [i \in 1..Len(h) |-> h[i].item]

\* C18: at every moment, under every interleaving of the message handler and
\* the consumers, the Data that wait_for_data calls have returned so far,
\* followed by the Data still in the queue, is the sequence of the Data in the
\* order they were enqueued: items are returned in the order of their
\* enqueueing, none skipped and none twice.
C18_QueueIsFifo == ItemsOf(delivered) \o incoming_data = enqueued

\* C18 witness: two different Data have been returned, the first to a consumer
\* that had been suspended on the empty queue before it arrived, and a third
\* one is still in the queue.
C18_Witness ==
    /\ Len(delivered) = 2
    /\ delivered[1].item # delivered[2].item
    /\ incoming_data # <<>>
    /\ \E c \in Consumers : qpc[c] = "waiting"

(***************************************************************************)
(* The three command variants                                              *)
(***************************************************************************)

\* C19: each of the three variants, once the operator has made its handler and
\* passed it to add_handler, is registered, and runs through the two phases of
\* CommandHandler: a first request without payload leaves the form of the
\* variant, titled with its name, and handle_submit as next; a submission on
\* which execute raised nothing leaves the session terminal with a result form
\* first, followed by the Data for get_history and by no Data for subscribe and
\* unsubscribe.
C19_VariantsShareTwoPhases ==
    /\ \A v \in Variants : handlerOf[v] \in {"none", "registered"}
    /\ (inbound.phase = "start" /\ inbound.payload = EmptyPayload /\ raised = NoError) =>
            /\ session.payload.kind = "form"
            /\ session.payload.title = NameOf(VariantOf(session.node))
            /\ session.next = "handle_submit"
    /\ (inbound.phase = "next" /\ raised = NoError) =>
            /\ session.next = "none"
            /\ session.payload.kind = "list"
            /\ session.payload.items[1].ftype = "result"
            /\ session.node \in {"subscribe", "unsubscribe"} =>
                    session.payload.items[2] = None

(***************************************************************************)
(* Presence                                                                *)
(***************************************************************************)

\* Presence was sent only by a connect whose wait session_start ended.
PresenceOnlyAfterSessionStart ==
    presence => (pc[ConnectTask] = "done" /\ first[ConnectTask] = "session_start")

\* The session of a client is established and the connect or the reconnect
\* attempt that established it has returned.
EstablishedAndReturned ==
    /\ client
    /\ conn = "established"
    /\ \A t \in Tasks : pc[t] # "waiting"

\* C20: whenever the session of a client is established and the connect or the
\* reconnection that established it has returned, presence has been sent on
\* the current connection; and presence is sent for no attempt whose session
\* start failed.
C20_PresenceWhenEstablished ==
    /\ EstablishedAndReturned => presence
    /\ PresenceOnlyAfterSessionStart

(***************************************************************************)
(* A handler call that fails                                               *)
(***************************************************************************)

\* C21: a handler call in which fill_form or execute raised, whether the error
\* left the handler converted or as it was, leaves the payload and the next of
\* the command session as they were before the call: for a first request the
\* payload the Iq carried and no next, for a follow-up the stored form and
\* handle_submit; so a failed submit neither makes the session terminal nor
\* stores a result.
C21_FailedCallLeavesSession ==
    [][/\ (StartStep /\ raised' # NoError) =>
            /\ session'.payload = inbound'.payload
            /\ session'.next = "none"
            /\ session'.payload.kind # "list"
       /\ (NextStep /\ raised' # NoError) =>
            /\ session'.payload = session.payload
            /\ session'.next = session.next
            /\ session'.next = "handle_submit"
            /\ session'.payload.kind = "form"]_vars

\* C21 witness: execute raised on a follow-up submission, the error left
\* converted, and the session still holds its form and expects a submit.
C21_Witness ==
    /\ inbound.phase = "next"
    /\ raised.type = "PermissionError"
    /\ left.kind = "XMPPError"
    /\ session.payload.kind = "form"
    /\ session.next = "handle_submit"

(***************************************************************************)
(* Every pushed item is returned once                                      *)
(***************************************************************************)

\* How many times x occurs in the sequence q.
Count(q, x) == Cardinality({i \in 1..Len(q) : q[i] = x})

\* Every Data enqueued so far is either still in the queue or was returned by
\* one wait_for_data, as many times as it was enqueued.
NoLossNoDuplication ==
    \A d \in DataElements :
        Count(enqueued, FromXml(d)) =
            Count(ItemsOf(delivered), FromXml(d)) + Count(incoming_data, FromXml(d))

\* No item stays in the queue behind suspended consumers none of which was
\* woken.
NoStrandedItem ==
    (incoming_data # <<>> /\ \E c \in Consumers : qpc[c] = "waiting") =>
        \E c \in Consumers : qpc[c] = "woken"

\* C22: with the message handler and several consumers interleaved, every Data
\* enqueued is in the queue or was returned by exactly one wait_for_data, and
\* is returned when the consumers go on calling; the handler puts its item at
\* the end of the queue in one step whatever the queue holds; an item leaves
\* the queue only when a wait_for_data call returns it to one consumer; and a
\* step of listen, or an operation listen yielded that is dropped, takes
\* nothing from the queue and suspends nobody.
C22_EachItemReturnedOnce ==
    /\ [](NoLossNoDuplication /\ NoStrandedItem)
    /\ []<>(incoming_data = <<>> /\ Len(delivered) = Len(enqueued))
    /\ [][/\ enqueued' # enqueued =>
               /\ Len(enqueued') = Len(enqueued) + 1
               /\ incoming_data' = Append(incoming_data, enqueued'[Len(enqueued')])
               /\ delivered' = delivered
          /\ delivered' # delivered =>
               \E c \in Consumers :
                   /\ delivered' = Append(delivered,
                                          [to |-> c, item |-> Head(incoming_data)])
                   /\ incoming_data' = Tail(incoming_data)
                   /\ qpc[c] \in {"idle", "woken"}
                   /\ qpc'[c] = "idle"
          /\ Len(incoming_data') < Len(incoming_data) => delivered' # delivered
          /\ (yielded' # yielded /\ delivered' = delivered /\ qpc' = qpc) =>
               UNCHANGED <<incoming_data, getters>>]_vars

\* C22 witness: as many items as arrive were enqueued and every one of them
\* was returned, some to one consumer and some to the other.
C22_Witness ==
    /\ Len(enqueued) = MaxMessages
    /\ Len(delivered) = MaxMessages
    /\ incoming_data = <<>>
    /\ \E i, j \in 1..Len(delivered) : delivered[i].to # delivered[j].to

====
